---------------------------- MODULE Spec2Model ----------------------------
(***************************************************************************)
(* A model of zsimview.py, the ZSim HDF5 viewer (class ZSimHDFViewer).     *)
(*                                                                         *)
(* The viewer is single-threaded: every Qt signal handler runs to its end  *)
(* before the next event is taken from the event loop, so each handler is  *)
(* one atomic action.  A handler is written as an operator from the        *)
(* viewer's state (a record with one field per attribute of the object)    *)
(* to its state when the handler returns; signals the handler emits        *)
(* synchronously (QListWidget.currentRowChanged, QAction.toggled) are      *)
(* calls of the connected slot inside the operator.                        *)
(*                                                                         *)
(* The file system is the environment: `disk` maps a path to the content   *)
(* found there, and the persisted state file ~/.zsim_hdf_viewer_state.json *)
(* is the field state_file of the viewer's state record.                   *)
(*                                                                         *)
(* Python's None is the empty tuple and a present value x is <<x>>.        *)
(***************************************************************************)
EXTENDS Integers, Sequences, FiniteSets, TLC

None == <<>>

\* ------------------------------------------------------------------ bounds

\* Changes the environment makes to the files on disk in one behaviour.
MaxDiskChanges == 1
\* display_value inputs: records in an array of compound, sub-fields per record.
MaxRecs == 2
MaxCols == 2

\* --------------------------------------------------------- numpy values

\* A value read out of a record (numpy).  kind is
\*   "scalar"   a numpy scalar number              data = <<v>>
\*   "void"     a scalar compound (np.void)        names, data = <<v1, ..>>
\*   "array"    an ndarray of numbers of `shape`   data = the elements, C order
\*   "recarray" a one-dimensional ndarray of compound records:
\*              names, recs = the records, each a tuple of numbers
\* The numbers are the unsigned counters ZSim writes; all are naturals.
Scalar(v) == [kind |-> "scalar", names |-> <<>>, shape |-> <<>>, data |-> <<v>>, recs |-> <<>>]
Void(names, vals) == [kind |-> "void", names |-> names, shape |-> <<>>, data |-> vals, recs |-> <<>>]
Array(shape, data) == [kind |-> "array", names |-> <<>>, shape |-> shape, data |-> data, recs |-> <<>>]
RecArray(names, recs) == [kind |-> "recarray", names |-> names, shape |-> <<Len(recs)>>, data |-> <<>>, recs |-> recs]

\* Index of name n in the tuple names (list.index); 0 when absent.
IndexOf(names, n) ==
    IF \E i \in 1..Len(names) : names[i] = n
    THEN CHOOSE i \in 1..Len(names) : names[i] = n /\ \A j \in 1..(i-1) : names[j] # n
    ELSE 0

Range(seq) == {seq[i] : i \in 1..Len(seq)}

RECURSIVE SumSeq(_)
\* np.sum over a one-dimensional column of naturals; 0 for the empty column.
SumSeq(seq) == IF seq = <<>> THEN 0 ELSE seq[1] + SumSeq(Tail(seq))

\* ------------------------------------------------------ formatting helpers

RECURSIVE Groups(_)
\* The digit groups of f"{n:,}": 1234567 is "1,234,567", groups <<1, 234, 567>>.
Groups(n) == IF n < 1000 THEN <<n>> ELSE Groups(n \div 1000) \o <<n % 1000>>

\* _format_value(v) for an integer-like number: (text, is_numeric).  The
\* text is the thousands-separated decimal form.  The counters of the
\* catalog are integers below 2^53, for which float(v) is exact and
\* is_integer() holds, so the branches for fractions and for ndarray
\* elements are not taken.
_format_value(v) == [text |-> Groups(v), is_numeric |-> TRUE]

\* A QTableWidget: its dimensions, its header labels and its items.  An
\* item is [row, col, text, right], right being the right alignment
\* _set_item gives a numeric text.  Rows and columns count from 0.
EmptyTable == [rows |-> 0, cols |-> 0, hlabels |-> <<>>, vlabels |-> <<>>, items |-> {}]

\* QTableWidget.clear(): the items and the header labels go, the
\* dimensions stay.
table_clear(t) == [t EXCEPT !.hlabels = <<>>, !.vlabels = <<>>, !.items = {}]

\* _set_item(row, col, v) as the item it puts into the table.
_set_item(row, col, v) ==
    LET f == _format_value(v)
    IN [row |-> row, col |-> col, text |-> f.text, right |-> f.is_numeric]

\* [str(i) for i in range(rows)]: the vertical header labels "0", "1", ...
RowLabels(rows) == [i \in 1..rows |-> ToString(i - 1)]

ValueLabel == <<"value">>

\* Column j (1-based) of the records: arr[n] for the j-th name n.
Column(recs, j) == [i \in 1..Len(recs) |-> recs[i][j]]

\* ------------------------------------------------------------ display_value

\* The table written by the scalar branches (a python scalar, a numpy
\* scalar number): one row "0", one column "value".
ScalarTable(v) ==
    [rows |-> 1, cols |-> 1, hlabels |-> ValueLabel, vlabels |-> RowLabels(1),
     items |-> {_set_item(0, 0, v)}]

\* The scalar compound branch: one row "0", one column per name.
VoidTable(value) ==
    [rows |-> 1, cols |-> Len(value.names), hlabels |-> value.names,
     vlabels |-> RowLabels(1),
     items |-> {_set_item(0, j - 1, value.data[j]) : j \in 1..Len(value.names)}]

\* An array-of-compound table whose records start in row 0, over the sums.
RecArrayTableNoOffset(arr) ==
    LET names == arr.names
        rows == arr.shape[1]
    IN [rows |-> rows + 1, cols |-> Len(names), hlabels |-> names,
        vlabels |-> <<"SUM">> \o RowLabels(rows),
        items |-> {_set_item(0, j - 1, SumSeq(Column(arr.recs, j))) : j \in 1..Len(names)}
                  \cup {_set_item(i - 1, j - 1, arr.recs[i][j]) :
                            i \in 1..rows, j \in 1..Len(names)}]

\* The array-of-compound branch, arr.ndim = 1: a SUM row, then one row
\* per record.
RecArrayTable(arr) ==
    LET names == arr.names
        rows == arr.shape[1]
    IN [rows |-> rows + 1, cols |-> Len(names), hlabels |-> names,
        vlabels |-> <<"SUM">> \o RowLabels(rows),
        items |-> {_set_item(0, j - 1, SumSeq(Column(arr.recs, j))) : j \in 1..Len(names)}
                  \cup {_set_item(i, j - 1, arr.recs[i][j]) :
                            i \in 1..rows, j \in 1..Len(names)}]

\* The plain numeric array branches: a one-dimensional array row by row,
\* a higher-dimensional one flattened (reshape(-1), C order) first.
PlainArrayTable(arr) ==
    LET flat == arr.data
        rows == IF Len(arr.shape) = 1 THEN arr.shape[1] ELSE Len(flat)
    IN [rows |-> rows, cols |-> 1, hlabels |-> ValueLabel, vlabels |-> RowLabels(rows),
        items |-> {_set_item(i - 1, 0, flat[i]) : i \in 1..rows}]

\* display_value(field_name, value): the table after the call.  It clears
\* the table first and then dispatches on the shape of the value.
display_value(t, value) ==
    LET cleared == table_clear(t)
    IN CASE value.kind = "scalar" -> ScalarTable(value.data[1])
         [] value.kind = "void" -> VoidTable(value)
         [] value.kind = "recarray" -> RecArrayTable(value)
         [] value.kind = "array" -> PlainArrayTable(value)
         [] OTHER -> cleared

\* ------------------------------------------------------- the files on disk

Paths == {"a.h5", "b.h5"}

\* The field names of a ZSim run's 'root' record and one snapshot's values.
NamesA == <<"phase", "time", "core">>
NamesB == <<"core", "l2">>

Snap(vals) == [ok |-> TRUE, vals |-> vals]
\* A snapshot whose record cannot be read (dset[i] raises).
BadSnap == [ok |-> FALSE, vals |-> <<>>]

CoreNames == <<"cycles", "instrs">>

\* What a path can hold.  A content is
\*   can_open      h5py.File(path, "r") succeeds
\*   has_stats     "stats" in h5_file
\*   dtype_fields  dset.dtype.fields: None for a dataset that is not
\*                 compound, else <<the set of its field names>>
\*   names         dset.dtype["root"].names
\*   snaps         the records dset[0], dset[1], ...
NoFile == [can_open |-> FALSE, has_stats |-> FALSE, dtype_fields |-> None,
           names |-> <<>>, snaps |-> <<>>]
File(c) ==
    CASE c = "garbage" -> NoFile
      [] c = "nostats" -> [NoFile EXCEPT !.can_open = TRUE]
      [] c = "plain" -> [NoFile EXCEPT !.can_open = TRUE, !.has_stats = TRUE]
      [] c = "noroot" -> [NoFile EXCEPT !.can_open = TRUE, !.has_stats = TRUE,
                                        !.dtype_fields = <<{"other"}>>]
      [] c = "runA" ->
            [can_open |-> TRUE, has_stats |-> TRUE, dtype_fields |-> <<{"root"}>>,
             names |-> NamesA,
             snaps |-> << Snap(<<Scalar(0), Array(<<2>>, <<0, 1000>>),
                                 RecArray(CoreNames, << <<700, 5>>, <<600, 7>> >>)>>),
                          Snap(<<Scalar(1), Array(<<2>>, <<0, 2500>>),
                                 RecArray(CoreNames, << <<1700, 9>>, <<1600, 8>> >>)>>) >>]
      [] c = "runB" ->
            [can_open |-> TRUE, has_stats |-> TRUE, dtype_fields |-> <<{"root", "aux"}>>,
             names |-> NamesB,
             snaps |-> << Snap(<<RecArray(CoreNames, <<>>),
                                 Void(<<"hits", "misses">>, <<12, 3400>>)>>),
                          BadSnap >>]
      [] OTHER -> NoFile

Missing == "missing"
Contents == {Missing, "garbage", "nostats", "plain", "noroot", "runA", "runB"}

\* The disks a behaviour starts from, and what the environment rewrites
\* while it runs: a.h5 starts as a good run and is rewritten, replaced by
\* another run or by a file without 'root', or removed; b.h5 is a second
\* file, good or unusable in one of the four ways.
InitialDisks ==
    {d \in [Paths -> Contents] :
        d["a.h5"] = "runA" /\ d["b.h5"] \in {"runB", "noroot", "plain", "nostats", "garbage"}}
Rewritten == {"a.h5"}
Rewrites == {Missing, "runA", "runB", "noroot"}

\* os.path.exists(path)
exists(d, path) == path \in DOMAIN d /\ d[path] # Missing

\* dset[row]["root"] of the open dataset <<c>>: the record, tagged with
\* the file content and the index it was read from.  An open dataset
\* reads the content the file had when it was opened; 'root' is compound
\* in every run of the catalog.
ReadRecord(c, row) ==
    [file |-> c, idx |-> row, names |-> File(c).names, vals |-> File(c).snaps[row + 1].vals]

Readable(c, row) == row + 1 \in 1..Len(File(c).snaps) /\ File(c).snaps[row + 1].ok

\* rec[name]
FieldOf(rec, name) == rec.vals[IndexOf(rec.names, name)]

\* --------------------------------------------------------- the viewer state

\* A QListWidget: its items and its current row (-1: no current item).
EmptyList == [items |-> <<>>, row |-> -1]

\* The state file: absent, unparsable, or the JSON object _save_state
\* writes.  Its values are a bool, strings, an int and nulls, which
\* json.dump and json.load carry over unchanged.
NoStateFile == [kind |-> "absent", dark_mode |-> FALSE, last_file |-> None,
                last_snapshot |-> None, last_field |-> None]
CorruptStateFile == [NoStateFile EXCEPT !.kind = "corrupt"]

\* The viewer after __init__'s assignments, _build_ui and _build_menu,
\* before it opens anything; sf is the state file found on disk.  The
\* last four fields record what the running handler did: the error
\* dialogs it showed, the writes of the state file, an exception that
\* left it unhandled, and its call of open_file.
Constructed(sf) ==
    [h5_file |-> None, dset |-> None, current_snapshot_index |-> None,
     current_record |-> None, last_field_name |-> None, current_file_path |-> None,
     dark_mode |-> FALSE, dark_mode_action |-> FALSE, fs_watcher |-> {},
     snapshot_list |-> EmptyList, field_list |-> EmptyList, table |-> EmptyTable,
     state_file |-> sf,
     dialogs |-> <<>>, saves |-> 0, raised |-> FALSE, open_call |-> None]

\* QMessageBox.critical(...): one modal error dialog.
critical(s, msg) == [s EXCEPT !.dialogs = Append(@, msg)]

\* _save_state(): write the four remembered values to the state file.
\* (A failing write is swallowed by the code; the model's disk is
\* always writable.)
_save_state(s) ==
    [s EXCEPT !.state_file = [kind |-> "json", dark_mode |-> s.dark_mode,
                              last_file |-> s.current_file_path,
                              last_snapshot |-> s.current_snapshot_index,
                              last_field |-> s.last_field_name],
              !.saves = @ + 1]

\* _apply_dark_mode(enabled)
_apply_dark_mode(s, enabled) == _save_state([s EXCEPT !.dark_mode = enabled])

\* dark_mode_action.setChecked(b): toggled(b) is emitted, and
\* _apply_dark_mode runs, only when the checked state changes.
setChecked(s, b) ==
    IF s.dark_mode_action = b THEN s
    ELSE _apply_dark_mode([s EXCEPT !.dark_mode_action = b], b)

\* ------------------------------------------------------------ on_field_selected

\* on_field_selected(row)
on_field_selected(s, row) ==
    IF s.current_record = None \/ row < 0 THEN s
    ELSE LET rec == s.current_record[1]
             field_name == s.field_list.items[row + 1]
             s1 == [s EXCEPT !.last_field_name = <<field_name>>]
         IN IF field_name \notin Range(rec.names)
            THEN critical(s1, "Failed to read field")
            ELSE _save_state([s1 EXCEPT !.table = display_value(s1.table, FieldOf(rec, field_name))])

\* field_list.clear(): currentRowChanged(-1) goes to on_field_selected
\* when there was a current row.
field_list_clear(s) ==
    IF s.field_list.row = -1 THEN [s EXCEPT !.field_list = EmptyList]
    ELSE on_field_selected([s EXCEPT !.field_list = EmptyList], -1)

\* field_list.setCurrentRow(idx): currentRowChanged(idx) goes to
\* on_field_selected when the current row changes.
field_list_setCurrentRow(s, idx) ==
    IF s.field_list.row = idx THEN s
    ELSE on_field_selected([s EXCEPT !.field_list.row = idx], idx)

\* --------------------------------------------------------- on_snapshot_selected

\* A re-selection that never finds the previous field.
reselect_field_never(s, field_names) == s

\* The tail of on_snapshot_selected: re-select the field named
\* last_field_name in the new field list, if it is there.
reselect_field(s, field_names) ==
    LET prev_field == s.last_field_name
    IN IF prev_field # None /\ prev_field[1] \in Range(field_names)
       THEN LET idx == IndexOf(field_names, prev_field[1]) - 1
            IN on_field_selected(field_list_setCurrentRow(s, idx), idx)
       ELSE s

\* on_snapshot_selected(row)
on_snapshot_selected(s, row) ==
    IF row < 0 \/ s.dset = None THEN s
    ELSE LET s1 == [s EXCEPT !.current_snapshot_index = <<row>>]
         IN IF ~Readable(s1.dset[1], row)
            THEN critical(s1, "Failed to read snapshot")
            ELSE LET rec == ReadRecord(s1.dset[1], row)
                     s2 == field_list_clear([s1 EXCEPT !.current_record = <<rec>>])
                     s3 == [s2 EXCEPT !.table = table_clear(@),
                                      !.field_list.items = rec.names]
                 IN _save_state(reselect_field(s3, rec.names))

\* snapshot_list.clear()
snapshot_list_clear(s) ==
    IF s.snapshot_list.row = -1 THEN [s EXCEPT !.snapshot_list = EmptyList]
    ELSE on_snapshot_selected([s EXCEPT !.snapshot_list = EmptyList], -1)

\* snapshot_list.setCurrentRow(row)
snapshot_list_setCurrentRow(s, row) ==
    IF s.snapshot_list.row = row THEN s
    ELSE on_snapshot_selected([s EXCEPT !.snapshot_list.row = row], row)

\* ------------------------------------------------------------------- state

VARIABLES
    disk,                   \* the environment: path -> content
    phase,                  \* "off", "running", or "crashed" (unhandled exception)
    changes,                \* changes of the disk so far
    pending,                \* a fileChanged signal waits in the event loop
    h5_file, dset, current_snapshot_index, current_record, last_field_name,
    current_file_path, dark_mode, dark_mode_action, fs_watcher,
    snapshot_list, field_list, table,
    state_file,             \* the persisted state file
    dialogs, saves, raised, open_call,  \* what the last handler did
    lastEv,                 \* the last event handled: [op, arg]
    chosen,                 \* the user's last choice on the 'Dark mode' toggle
    closedWith,             \* the values the last session closed with
    dv_value                \* the value last given to display_value on its own

stateVars == <<h5_file, dset, current_snapshot_index, current_record, last_field_name,
               current_file_path, dark_mode, dark_mode_action, fs_watcher,
               snapshot_list, field_list, table, state_file,
               dialogs, saves, raised, open_call>>
vars == <<disk, phase, changes, pending, stateVars, lastEv, chosen, closedWith,
          dv_value>>

\* The viewer's state as a record.
Cur ==
    [h5_file |-> h5_file, dset |-> dset, current_snapshot_index |-> current_snapshot_index,
     current_record |-> current_record, last_field_name |-> last_field_name,
     current_file_path |-> current_file_path, dark_mode |-> dark_mode,
     dark_mode_action |-> dark_mode_action, fs_watcher |-> fs_watcher,
     snapshot_list |-> snapshot_list, field_list |-> field_list, table |-> table,
     state_file |-> state_file,
     dialogs |-> dialogs, saves |-> saves, raised |-> raised, open_call |-> open_call]

\* The state a handler starts from: nothing done yet.
Begin == [Cur EXCEPT !.dialogs = <<>>, !.saves = 0, !.raised = FALSE, !.open_call = None]

\* The viewer's variables become the fields of r.
Commit(r) ==
    /\ h5_file' = r.h5_file
    /\ dset' = r.dset
    /\ current_snapshot_index' = r.current_snapshot_index
    /\ current_record' = r.current_record
    /\ last_field_name' = r.last_field_name
    /\ current_file_path' = r.current_file_path
    /\ dark_mode' = r.dark_mode
    /\ dark_mode_action' = r.dark_mode_action
    /\ fs_watcher' = r.fs_watcher
    /\ snapshot_list' = r.snapshot_list
    /\ field_list' = r.field_list
    /\ table' = r.table
    /\ state_file' = r.state_file
    /\ dialogs' = r.dialogs
    /\ saves' = r.saves
    /\ raised' = r.raised
    /\ open_call' = r.open_call

\* ---------------------------------------------------------------- open_file

\* Labels that count the snapshots from 1.
SnapshotLabelFromOne(c, i) == <<ToString(i + 1)>>

\* The label of snapshot i in the snapshot list, as its parts:
\* f"{i}: phase={phase}, time={time_val}", or f"{i}" when the record, its
\* 'phase' or its 'time' cannot be read as a number.
SnapshotLabel(c, i) ==
    LET names == File(c).names
        rec == ReadRecord(c, i)
        phase_ok == "phase" \in Range(names) /\ FieldOf(rec, "phase").kind = "scalar"
        time_ok == /\ "time" \in Range(names)
                   /\ \/ FieldOf(rec, "time").kind = "scalar"
                      \/ /\ FieldOf(rec, "time").kind = "array"
                         /\ Len(FieldOf(rec, "time").shape) = 1
                         /\ Len(FieldOf(rec, "time").data) > 0
        time_arr == FieldOf(rec, "time").data
    IN IF Readable(c, i) /\ phase_ok /\ time_ok
       THEN <<ToString(i), "phase", FieldOf(rec, "phase").data[1], "time", time_arr[Len(time_arr)]>>
       ELSE <<ToString(i)>>

\* The viewer's state without the record of its open_file call.
Strip(s) == [s EXCEPT !.open_call = None]

\* open_file(path).  The state it returns carries, in open_call, the
\* path, how the call ended, the state after it and, for a call that
\* did not succeed, the state before it.
open_file(s, path) ==
    LET c == IF path \in DOMAIN disk THEN disk[path] ELSE Missing
        f == File(c)
        done(st, res) ==
            [st EXCEPT !.open_call = <<[path |-> path, result |-> res,
                                        pre |-> IF res = "ok" THEN None ELSE <<Strip(s)>>,
                                        post |-> Strip(st)]>>]
        \* Close previous
        s0 == IF s.h5_file # None THEN [s EXCEPT !.h5_file = None, !.dset = None] ELSE s
    IN IF ~f.can_open
       THEN done(critical(s0, "Failed to open file"), "open_failed")
       ELSE IF ~f.has_stats
       THEN done([critical(s0, "File does not contain a 'stats' dataset") EXCEPT !.h5_file = None],
                 "no_stats")
       ELSE LET s1 == [s0 EXCEPT !.h5_file = <<c>>, !.dset = <<c>>,
                                 !.current_file_path = <<path>>,
                                 !.fs_watcher = {path}]
            IN IF f.dtype_fields = None
               \* "root" not in None: TypeError, no handler
               THEN done([s1 EXCEPT !.raised = TRUE], "type_error")
               ELSE IF "root" \notin f.dtype_fields[1]
               THEN done([critical(s1, "Dataset 'stats' does not contain a 'root' field")
                            EXCEPT !.h5_file = None, !.dset = None], "no_root")
               ELSE LET s2 == snapshot_list_clear(s1)
                        s3 == field_list_clear(s2)
                        s4 == [s3 EXCEPT !.table = table_clear(@),
                                         !.snapshot_list.items =
                                             [i \in 1..Len(f.snaps) |-> SnapshotLabel(c, i - 1)]]
                    IN done(_save_state([s4 EXCEPT !.current_snapshot_index = None,
                                                   !.current_record = None,
                                                   !.last_field_name = None]), "ok")

\* ------------------------------------------------------------ on_file_changed

\* on_file_changed(path): the path is not used.
on_file_changed(s) ==
    IF s.current_file_path = None \/ ~exists(disk, s.current_file_path[1]) THEN s
    ELSE LET snap == s.current_snapshot_index
             field == s.last_field_name
             s1 == open_file(s, s.current_file_path[1])
         IN IF s1.raised THEN s1
            ELSE IF snap # None /\ 0 <= snap[1] /\ snap[1] < Len(s1.snapshot_list.items)
            THEN [snapshot_list_setCurrentRow([s1 EXCEPT !.current_snapshot_index = snap], snap[1])
                    EXCEPT !.last_field_name = field]
            ELSE s1

\* ---------------------------------------------------------------- _load_state

\* A restore that selects the snapshot and drops the remembered field.
restore_selection_no_field(s, last_snapshot, last_field) ==
    IF /\ last_snapshot # None
       /\ 0 <= last_snapshot[1]
       /\ last_snapshot[1] < Len(s.snapshot_list.items)
    THEN snapshot_list_setCurrentRow(s, last_snapshot[1])
    ELSE s

\* _load_state, after the file is opened: restore snapshot and field.
restore_selection(s, last_snapshot, last_field) ==
    IF /\ last_snapshot # None
       /\ 0 <= last_snapshot[1]
       /\ last_snapshot[1] < Len(s.snapshot_list.items)
    THEN [snapshot_list_setCurrentRow(s, last_snapshot[1])
            EXCEPT !.last_field_name = last_field]
    ELSE s

\* _load_state()
_load_state(s) ==
    LET st == s.state_file
    IN IF st.kind # "json" THEN s
       ELSE LET s1 == [s EXCEPT !.dark_mode = st.dark_mode]
                s2 == setChecked(s1, s1.dark_mode)
                s3 == _apply_dark_mode(s2, s2.dark_mode)
                last_file == st.last_file
                last_snapshot == st.last_snapshot
                last_field == st.last_field
            IN IF last_file # None /\ exists(disk, last_file[1])
               THEN LET s4 == open_file(s3, last_file[1])
                    IN IF s4.raised THEN s4
                       ELSE restore_selection(s4, last_snapshot, last_field)
               ELSE s3

\* __init__(h5_path) of a process that finds state file sf.
__init__(sf, h5_path) ==
    IF h5_path # None THEN open_file(Constructed(sf), h5_path[1])
    ELSE _load_state(Constructed(sf))

\* closeEvent(event)
closeEvent(s) == _save_state(s)

\* ------------------------------------------------------------------ actions

Event(op, arg) == [op |-> op, arg |-> arg]

\* A handler has returned r: the process goes on, or dies of the
\* exception no handler caught (PyQt5 aborts on an exception that leaves
\* a slot; one that leaves __init__ ends main).
Returned(r) ==
    /\ Commit(r)
    /\ phase' = IF r.raised THEN "crashed" ELSE "running"

Init ==
    /\ disk \in InitialDisks
    /\ phase = "off"
    /\ changes = 0
    /\ pending = FALSE
    /\ state_file \in {NoStateFile, CorruptStateFile}
    /\ h5_file = None
    /\ dset = None
    /\ current_snapshot_index = None
    /\ current_record = None
    /\ last_field_name = None
    /\ current_file_path = None
    /\ dark_mode = FALSE
    /\ dark_mode_action = FALSE
    /\ fs_watcher = {}
    /\ snapshot_list = EmptyList
    /\ field_list = EmptyList
    /\ table = EmptyTable
    /\ dialogs = <<>>
    /\ saves = 0
    /\ raised = FALSE
    /\ open_call = None
    /\ lastEv = Event("none", None)
    /\ chosen = FALSE
    /\ closedWith = None
    /\ dv_value = None

\* main(): the program starts, with a path on the command line or none.
Start ==
    /\ phase \in {"off", "crashed"}
    /\ \E h5_path \in {None} \cup {<<p>> : p \in Paths} :
          /\ Returned(__init__(state_file, h5_path))
          /\ lastEv' = Event("__init__", h5_path)
          /\ closedWith' = IF phase = "off" /\ h5_path = None THEN closedWith ELSE None
    /\ pending' = FALSE
    /\ UNCHANGED <<disk, changes, chosen, dv_value>>

\* The user closes the window: closeEvent, and the process ends.
Close ==
    /\ phase = "running"
    /\ LET r == closeEvent(Begin)
       IN /\ Commit([Constructed(r.state_file) EXCEPT !.saves = r.saves])
          /\ closedWith' = <<[dark_mode |-> r.dark_mode,
                              current_file_path |-> r.current_file_path,
                              current_snapshot_index |-> r.current_snapshot_index,
                              last_field_name |-> r.last_field_name]>>
    /\ phase' = "off"
    /\ pending' = FALSE
    /\ lastEv' = Event("closeEvent", None)
    /\ UNCHANGED <<disk, changes, chosen, dv_value>>

\* The user flips View > Dark mode.
ToggleDark ==
    /\ phase = "running"
    /\ Returned(setChecked(Begin, ~dark_mode_action))
    /\ chosen' = ~dark_mode_action
    /\ lastEv' = Event("toggled", <<~dark_mode_action>>)
    /\ closedWith' = None
    /\ UNCHANGED <<disk, changes, pending, dv_value>>

\* open_dialog(): the user picks an existing file.
OpenDialog ==
    /\ phase = "running"
    /\ \E path \in Paths :
          /\ exists(disk, path)
          /\ Returned(open_file(Begin, path))
          /\ lastEv' = Event("open_dialog", <<path>>)
    /\ closedWith' = None
    /\ UNCHANGED <<disk, changes, pending, chosen, dv_value>>

\* The event loop delivers fs_watcher.fileChanged.
FileChanged ==
    /\ phase = "running"
    /\ pending
    /\ Returned(on_file_changed(Begin))
    /\ pending' = FALSE
    /\ lastEv' = Event("on_file_changed", None)
    /\ closedWith' = None
    /\ UNCHANGED <<disk, changes, chosen, dv_value>>

\* The user makes another row of the snapshot list current.
SelectSnapshot ==
    /\ phase = "running"
    /\ \E row \in 0..(Len(snapshot_list.items) - 1) :
          /\ row # snapshot_list.row
          /\ Returned(snapshot_list_setCurrentRow(Begin, row))
          /\ lastEv' = Event("on_snapshot_selected", <<row>>)
    /\ closedWith' = None
    /\ UNCHANGED <<disk, changes, pending, chosen, dv_value>>

\* The user makes another row of the field list current.
SelectField ==
    /\ phase = "running"
    /\ \E row \in 0..(Len(field_list.items) - 1) :
          /\ row # field_list.row
          /\ Returned(field_list_setCurrentRow(Begin, row))
          /\ lastEv' = Event("on_field_selected", <<row>>)
    /\ closedWith' = None
    /\ UNCHANGED <<disk, changes, pending, chosen, dv_value>>

\* The environment rewrites, replaces or removes a file.  A watched file
\* makes QFileSystemWatcher queue fileChanged; a removed file is dropped
\* from the watched paths.  No handler ran: the record of what the last
\* handler did is emptied.
DiskChange ==
    /\ changes < MaxDiskChanges
    /\ \E path \in Rewritten, c \in Rewrites :
          /\ ~(c = Missing /\ disk[path] = Missing)
          /\ disk' = [disk EXCEPT ![path] = c]
          /\ IF phase = "running" /\ path \in fs_watcher
             THEN /\ pending' = TRUE
                  /\ fs_watcher' = IF c = Missing THEN fs_watcher \ {path} ELSE fs_watcher
             ELSE UNCHANGED <<pending, fs_watcher>>
    /\ changes' = changes + 1
    /\ lastEv' = Event("disk", None)
    /\ dialogs' = <<>>
    /\ saves' = 0
    /\ open_call' = None
    /\ UNCHANGED <<phase, chosen, closedWith, dv_value,
                   h5_file, dset, current_snapshot_index, current_record, last_field_name,
                   current_file_path, dark_mode, dark_mode_action,
                   snapshot_list, field_list, table, state_file, raised>>

Next ==
    \/ Start
    \/ Close
    \/ ToggleDark
    \/ OpenDialog
    \/ FileChanged
    \/ SelectSnapshot
    \/ SelectField
    \/ DiskChange

Spec == Init /\ [][Next]_vars

\* ------------------------------------------------- display_value on its own

SubNames == <<"cycles", "instrs", "stalls", "misses">>
SubValues == {0, 999, 1000}

\* The one-dimensional arrays of n compound records with k numeric
\* sub-fields.
RecArrays(n, k) ==
    {RecArray(SubSeq(SubNames, 1, k), recs) : recs \in [1..n -> [1..k -> SubValues]]}

\* Values of the other three shapes.
OtherInputs ==
    {Scalar(1234567), Void(<<"hits", "misses">>, <<12, 3400>>),
     Array(<<3>>, <<1, 2, 3>>), Array(<<2, 2>>, <<5, 6, 7, 8>>)}

\* Tables display_value may find: the empty one and one an earlier call
\* left.
EarlierTables == {EmptyTable, PlainArrayTable(Array(<<3>>, <<1, 2, 3>>))}

\* The viewer as constructed, about to display one of the inputs.
InitDisplay ==
    /\ disk = [path \in Paths |-> Missing]
    /\ phase = "running"
    /\ changes = 0
    /\ pending = FALSE
    /\ state_file = NoStateFile
    /\ h5_file = None
    /\ dset = None
    /\ current_snapshot_index = None
    /\ current_record = None
    /\ last_field_name = None
    /\ current_file_path = None
    /\ dark_mode = FALSE
    /\ dark_mode_action = FALSE
    /\ fs_watcher = {}
    /\ snapshot_list = EmptyList
    /\ field_list = EmptyList
    /\ table \in EarlierTables
    /\ dialogs = <<>>
    /\ saves = 0
    /\ raised = FALSE
    /\ open_call = None
    /\ lastEv = Event("none", None)
    /\ chosen = FALSE
    /\ closedWith = None
    /\ \/ \E n \in 0..MaxRecs, k \in 1..MaxCols :
              \E value \in RecArrays(n, k) : dv_value = <<value>>
       \/ \E value \in OtherInputs : dv_value = <<value>>

\* display_value(field_name, value) on the input, once.
DisplayValue ==
    /\ lastEv.op # "display_value"
    /\ table' = display_value(table, dv_value[1])
    /\ lastEv' = Event("display_value", None)
    /\ UNCHANGED <<disk, phase, changes, pending, chosen, closedWith, dv_value,
                   h5_file, dset, current_snapshot_index, current_record, last_field_name,
                   current_file_path, dark_mode, dark_mode_action, fs_watcher,
                   snapshot_list, field_list, state_file,
                   dialogs, saves, raised, open_call>>

NextDisplay == DisplayValue

SpecDisplay == InitDisplay /\ [][NextDisplay]_vars

\* ------------------------------------------------------------------ claims

\* A file open_file accepts: it opens, has 'stats', and 'stats' is
\* compound with a 'root' field.
OpensOk(c) ==
    /\ File(c).can_open
    /\ File(c).has_stats
    /\ File(c).dtype_fields # None
    /\ "root" \in File(c).dtype_fields[1]

\* A file whose 'stats' dataset has no 'root' field.
LacksRoot(c) ==
    /\ File(c).can_open
    /\ File(c).has_stats
    /\ \/ File(c).dtype_fields = None
       \/ "root" \notin File(c).dtype_fields[1]

\* C1: open_file on a file whose 'stats' has no 'root' field (a compound
\* type without it, or a type with no fields at all) shows one error
\* dialog and returns normally with h5_file = None and dset = None,
\* without repopulating the snapshot list and without an exception.
C1_StatsWithoutRootRejected ==
    open_call # None =>
        LET oc == open_call[1]
        IN LacksRoot(disk[oc.path]) =>
              /\ ~oc.post.raised
              /\ Len(oc.post.dialogs) = Len(oc.pre[1].dialogs) + 1
              /\ oc.post.h5_file = None
              /\ oc.post.dset = None
              /\ oc.post.snapshot_list = oc.pre[1].snapshot_list

\* One step of C2: a failed open_file, and a failed read of the selected
\* snapshot or field, show exactly one dialog and change neither the
\* table nor the state file.
C2_Step ==
    /\ (open_call' # None /\ open_call'[1].result # "ok") =>
          LET oc == open_call'[1]
          IN /\ ~oc.post.raised
             /\ Len(oc.post.dialogs) = Len(oc.pre[1].dialogs) + 1
             /\ oc.post.table = oc.pre[1].table
             /\ oc.post.saves = oc.pre[1].saves
    /\ (/\ lastEv'.op = "on_snapshot_selected"
        /\ dset # None
        /\ ~Readable(dset[1], lastEv'.arg[1])) =>
          /\ ~raised'
          /\ Len(dialogs') = 1
          /\ table' = table
          /\ saves' = 0
    /\ (/\ lastEv'.op = "on_field_selected"
        /\ current_record # None
        /\ field_list.items[lastEv'.arg[1] + 1] \notin Range(current_record[1].names)) =>
          /\ ~raised'
          /\ Len(dialogs') = 1
          /\ table' = table
          /\ saves' = 0

\* C2: every read failure (the file cannot be opened, has no 'stats',
\* 'stats' has no 'root', a snapshot's record or a field cannot be read)
\* is handled by exactly one error dialog, after which the handler
\* returns without rendering into the table and without writing the
\* state file.
C2_ReadFailureShowsOneErrorAndStops == [][C2_Step]_vars

\* The precondition of C3 in the state right after __init__: the session
\* started without a path, the session before it closed with a snapshot
\* index, and the file it had open still exists, opens and has more
\* snapshots than that index.
C3_Resumed ==
    /\ lastEv.op = "__init__"
    /\ lastEv.arg = None
    /\ closedWith # None
    /\ closedWith[1].current_snapshot_index # None
    /\ closedWith[1].current_file_path # None
    /\ exists(disk, closedWith[1].current_file_path[1])
    /\ OpensOk(disk[closedWith[1].current_file_path[1]])
    /\ closedWith[1].current_snapshot_index[1] <
          Len(File(disk[closedWith[1].current_file_path[1]]).snaps)

\* C3: the persisted state round-trips.  A session that closed with
\* dark_mode d, current_file_path p, current_snapshot_index s (not None)
\* and last_field_name f is followed by a session, started without a
\* path while p exists, opens and has more than s snapshots, that has the
\* same four values when __init__ is done.
C3_StateRoundTrips ==
    C3_Resumed =>
        /\ dark_mode = closedWith[1].dark_mode
        /\ current_file_path = closedWith[1].current_file_path
        /\ current_snapshot_index = closedWith[1].current_snapshot_index
        /\ last_field_name = closedWith[1].last_field_name

\* A resumed session whose predecessor had dark mode on and a field
\* selected.
C3_Witness ==
    /\ C3_Resumed
    /\ closedWith[1].dark_mode
    /\ closedWith[1].last_field_name # None
    /\ closedWith[1].current_snapshot_index[1] > 0
    /\ phase = "running"

\* One step of C4, for the file-changed event.
C4_Step ==
    (/\ lastEv'.op = "on_file_changed"
     /\ current_snapshot_index # None
     /\ snapshot_list.row = current_snapshot_index[1]
     /\ last_field_name # None
     /\ field_list.row >= 0
     /\ field_list.items[field_list.row + 1] = last_field_name[1]
     /\ table.items # {}
     /\ current_file_path # None
     /\ exists(disk, current_file_path[1])
     /\ OpensOk(disk[current_file_path[1]])
     /\ Readable(disk[current_file_path[1]], current_snapshot_index[1])
     /\ last_field_name[1] \in Range(File(disk[current_file_path[1]]).names)) =>
        LET c == disk[current_file_path[1]]
            s == current_snapshot_index[1]
            f == last_field_name[1]
        IN /\ snapshot_list'.row = s
           /\ current_snapshot_index' = <<s>>
           /\ last_field_name' = <<f>>
           /\ field_list'.row = IndexOf(File(c).names, f) - 1
           /\ table' = display_value(EmptyTable, FieldOf(ReadRecord(c, s), f))

\* C4: hot reload keeps the snapshot and the field.  With snapshot s
\* selected and field f displayed, a file-changed event for a file that
\* still exists, reopens, has more than s snapshots and has f in
\* snapshot s leaves row s current in the snapshot list,
\* current_snapshot_index = s, last_field_name = f, f current in the
\* field list and the table showing f as read from the reopened file.
C4_HotReloadKeepsSnapshotAndField == [][C4_Step]_vars

\* C5: the dark_mode value in the state file is the value the user last
\* chose with the 'Dark mode' toggle (False when never toggled), over
\* all sessions, started with or without a path.
C5_DarkModeRemembered ==
    state_file.kind = "json" => state_file.dark_mode = chosen

RECURSIVE ColumnSum(_, _, _)
\* The sum of sub-field j over the first i records.
ColumnSum(recs, j, i) == IF i = 0 THEN 0 ELSE ColumnSum(recs, j, i - 1) + recs[i][j]

RECURSIVE TextValue(_)
\* The number a thousands-separated text reads as.
TextValue(groups) ==
    IF Len(groups) = 1 THEN groups[1]
    ELSE TextValue(SubSeq(groups, 1, Len(groups) - 1)) * 1000 + groups[Len(groups)]

\* The texts of the items at (row, col).
ItemsAt(t, row, col) == {it.text : it \in {x \in t.items : x.row = row /\ x.col = col}}

\* C6: display_value on a one-dimensional array of n compound records
\* with k numeric sub-fields gives a table of n+1 rows and k columns with
\* vertical labels 'SUM', '0', ..., 'n-1'; row 0 holds, per column, the
\* sum of that sub-field over the records (0 when n = 0) and row i+1
\* holds the sub-fields of record i.
C6_RecordArrayTable ==
    (lastEv.op = "display_value" /\ dv_value[1].kind = "recarray") =>
        LET arr == dv_value[1]
            n == Len(arr.recs)
            k == Len(arr.names)
        IN /\ table.rows = n + 1
           /\ table.cols = k
           /\ Len(table.vlabels) = n + 1
           /\ table.vlabels[1] = "SUM"
           /\ \A i \in 0..(n - 1) : table.vlabels[i + 2] = ToString(i)
           /\ Cardinality(table.items) = (n + 1) * k
           /\ \A j \in 0..(k - 1) :
                 /\ {TextValue(x) : x \in ItemsAt(table, 0, j)} = {ColumnSum(arr.recs, j + 1, n)}
                 /\ \A i \in 0..(n - 1) :
                       {TextValue(x) : x \in ItemsAt(table, i + 1, j)} = {arr.recs[i + 1][j + 1]}

\* An array of at least two records whose first column sums to more
\* than its largest entry, displayed.
C6_Witness ==
    /\ lastEv.op = "display_value"
    /\ dv_value[1].kind = "recarray"
    /\ Len(dv_value[1].recs) >= 2
    /\ Len(dv_value[1].names) >= 2
    /\ ColumnSum(dv_value[1].recs, 1, Len(dv_value[1].recs)) > 1000
    /\ dv_value[1].recs[1][1] # dv_value[1].recs[2][1]
    /\ table.rows = Len(dv_value[1].recs) + 1

\* One step of C7, for a snapshot selection by the user whose record is
\* read.
C7_Step ==
    (/\ lastEv'.op = "on_snapshot_selected"
     /\ dset # None
     /\ Readable(dset[1], lastEv'.arg[1])) =>
        LET names == File(dset[1]).names
            rec == ReadRecord(dset[1], lastEv'.arg[1])
        IN IF last_field_name # None /\ last_field_name[1] \in Range(names)
           THEN /\ field_list'.row = IndexOf(names, last_field_name[1]) - 1
                /\ field_list'.items[field_list'.row + 1] = last_field_name[1]
                /\ table' = display_value(EmptyTable, FieldOf(rec, last_field_name[1]))
           ELSE /\ field_list'.row = -1
                /\ table'.items = {}
                /\ last_field_name' = last_field_name

\* C7: selecting a snapshot re-selects the previous field by name.  When
\* on_snapshot_selected(row) reads the record and last_field_name is one
\* of its field names, that field's index becomes the field list's
\* current row and its value from the new record is displayed;
\* otherwise no field is selected, nothing is displayed and
\* last_field_name is unchanged.
C7_SnapshotReselectsField == [][C7_Step]_vars

\* A snapshot selection that re-selected a field and displayed it.
C7_Witness ==
    /\ lastEv.op = "on_snapshot_selected"
    /\ dialogs = <<>>
    /\ last_field_name # None
    /\ field_list.row >= 0
    /\ field_list.items[field_list.row + 1] = last_field_name[1]
    /\ table.items # {}
    /\ saves = 3

\* C8: after a successful open_file(path) on a file with N snapshots the
\* snapshot list holds N entries in index order, entry i's label
\* starting with i; the field list and the table are empty;
\* current_snapshot_index, current_record and last_field_name are None;
\* current_file_path = path; the watcher watches exactly {path}; and the
\* state file records last_file = path, last_snapshot and last_field
\* null.
C8_AfterSuccessfulOpen ==
    (open_call # None /\ open_call[1].result = "ok") =>
        LET oc == open_call[1]
            post == oc.post
            N == Len(File(disk[oc.path]).snaps)
        IN /\ Len(post.snapshot_list.items) = N
           /\ \A i \in 0..(N - 1) : post.snapshot_list.items[i + 1][1] = ToString(i)
           /\ post.field_list.items = <<>>
           /\ post.table.items = {}
           /\ post.table.hlabels = <<>> /\ post.table.vlabels = <<>>
           /\ post.current_snapshot_index = None
           /\ post.current_record = None
           /\ post.last_field_name = None
           /\ post.current_file_path = <<oc.path>>
           /\ post.fs_watcher = {oc.path}
           /\ post.state_file.kind = "json"
           /\ post.state_file.last_file = <<oc.path>>
           /\ post.state_file.last_snapshot = None
           /\ post.state_file.last_field = None

\* A successful open_file, from the dialog, of a file with an unreadable
\* snapshot and no 'phase'.
C8_Witness ==
    /\ lastEv.op = "open_dialog"
    /\ open_call # None
    /\ open_call[1].result = "ok"
    /\ disk[open_call[1].path] = "runB"
    /\ Len(snapshot_list.items) = 2
    /\ current_file_path = <<open_call[1].path>>

\* C9: whenever current_record is not None, a dataset is open and
\* current_record is the 'root' record of snapshot
\* current_snapshot_index of that dataset.
C9_RecordIsTheSelectedSnapshot ==
    (phase = "running" /\ current_record # None) =>
        /\ dset # None
        /\ current_snapshot_index # None
        /\ current_record[1].file = dset[1]
        /\ current_record[1].idx = current_snapshot_index[1]

\* C10: a failed open_file(path) (the file cannot be opened, has no
\* 'stats', or 'stats' has no 'root') leaves current_file_path and the
\* watched paths as they were before the call.
C10_FailedOpenKeepsPathAndWatcher ==
    (open_call # None /\ open_call[1].result \in {"open_failed", "no_stats", "no_root"}) =>
        /\ open_call[1].post.current_file_path = open_call[1].pre[1].current_file_path
        /\ open_call[1].post.fs_watcher = open_call[1].pre[1].fs_watcher

=============================================================================
